---- MODULE Spec2Model ----
(***************************************************************************)
(* Model of the octavia Minecraft server's connection engine:              *)
(*   src/src/packet/reader.rs   VarInt codec and field readers/writers     *)
(*   src/src/connection.rs      packet framer and protocol state machine   *)
(*   src/src/registry/*.rs      registry / tag encoder                     *)
(* Bytes are integers 0..255, byte strings are sequences of bytes.  i32    *)
(* values keep their width: every value is an integer in -2^31..2^31-1 and *)
(* shifts wrap as the Rust code wraps them.                                *)
(***************************************************************************)
EXTENDS Integers, Sequences, FiniteSets, TLC

(***************************************************************************)
(* Bounds of the model (not constants of the program).                     *)
(***************************************************************************)
\* frames the client sends over the lifetime of one connection
MaxSends == 4
\* frames the client may have in flight (sent, not yet read by the server)
MaxBurst == 2
\* handle_packet calls counted per socket read (the counter saturates)
MaxIter == 2
\* codec harness: VarInt values 0..MaxSmall next to the encoding boundaries
MaxSmall == 40
\* codec harness: longest byte string drawn from the sample bytes
MaxBytes == 3
\* codec harness: longest list of entries given to write_registry_packet
MaxEntryList == 2
\* server: connections accepted over the lifetime of the server
MaxConns == 2
\* codec harness: bytes after which the loop of write_varint is cut off
MaxWritten == 6

(***************************************************************************)
(* Program constants.                                                      *)
(***************************************************************************)
SEGMENT_BITS == 127
CONTINUE_BIT == 128
PROTOCOL_VERSION == 767
HANDSHAKE_PACKET_ID == 0
STATUS_REQUEST_PACKET_ID == 0
STATUS_RESPONSE_PACKET_ID == 0
PING_REQUEST_PACKET_ID == 1
LOGIN_START_PACKET_ID == 0
LOGIN_SUCCESS_PACKET_ID == 2
LOGIN_ACKNOWLEDGED_PACKET_ID == 3
CLIENT_INFORMATION_PACKET_ID == 0
PLUGIN_MESSAGE_PACKET_ID == 2
FINISH_CONFIGURATION_PACKET_ID == 3
KNOWN_PACKS_PACKET_ID == 7
\* id written by send_known_packs (clientbound known packs)
CLIENTBOUND_KNOWN_PACKS_ID == 14
\* id written by write_registry_packet (clientbound registry data)
REGISTRY_DATA_ID == 7
\* id written by write_update_tags
UPDATE_TAGS_ID == 13
\* size of the temporary read buffer of handle_connection
TEMP_BUF_SIZE == 1024

I32_MAX == 2147483647

(***************************************************************************)
(* Generic helpers on sequences.                                           *)
(***************************************************************************)
Min(a, b) == IF a < b THEN a ELSE b

Take(s, n) == SubSeq(s, 1, Min(n, Len(s)))

Drop(s, n) == SubSeq(s, Min(n, Len(s)) + 1, Len(s))

IsPrefix(p, s) == Len(p) <= Len(s) /\ SubSeq(s, 1, Len(p)) = p

RECURSIVE Flatten(_)
Flatten(ss) == IF ss = <<>> THEN <<>> ELSE Head(ss) \o Flatten(Tail(ss))

RECURSIVE Pow2(_)
Pow2(n) == IF n = 0 THEN 1 ELSE 2 * Pow2(n - 1)

(***************************************************************************)
(* Errors (error.rs).  VarInt errors are one variant that carries a        *)
(* message; the two messages read_varint produces are kept apart here.     *)
(***************************************************************************)
ErrVarIntUnderflow == [kind |-> "VarInt", msg |-> "buffer underflow"]
ErrVarIntTooLong == [kind |-> "VarInt", msg |-> "varint too long"]
ErrUnderrun(m) == [kind |-> "BufferUnderrun", msg |-> m]
ErrProtocol(m) == [kind |-> "Protocol", msg |-> m]
ErrUtf8 == [kind |-> "Utf8", msg |-> "invalid utf-8"]
NoErr == [kind |-> "none", msg |-> ""]

(***************************************************************************)
(* PacketReader::read_varint.  `result |= (byte & 0x7F) << shift` on i32:  *)
(* for shift 28 only the low 4 bits of the segment stay inside 32 bits,    *)
(* the 4th of them is the sign bit.                                        *)
(***************************************************************************)
\* variant of OrShl that ignores the shift
OrShl_unshifted(result, seg, shift) == result + seg

OrShl(result, seg, shift) ==
    IF shift < 28
    THEN result + seg * Pow2(shift)
    ELSE LET s4 == seg % 16
             pos == result + (s4 % 8) * Pow2(28)
         IN IF s4 \div 8 = 1 THEN (pos - I32_MAX) - 1 ELSE pos

\* The reader returns ok, the value, the cursor it leaves behind (rest) and
\* the error.  The cursor is advanced byte by byte as the code does, also on
\* the paths that end in an error.
RECURSIVE read_varint_loop(_, _, _)
read_varint_loop(buf, result, shift) ==
    IF buf = <<>>
    THEN [ok |-> FALSE, val |-> 0, rest |-> buf, err |-> ErrVarIntUnderflow]
    ELSE LET byte == Head(buf)
             r == OrShl(result, byte % (SEGMENT_BITS + 1), shift)
         IN IF byte < CONTINUE_BIT
            THEN [ok |-> TRUE, val |-> r, rest |-> Tail(buf), err |-> NoErr]
            ELSE IF shift + 7 >= 32
                 THEN [ok |-> FALSE, val |-> 0, rest |-> Tail(buf),
                       err |-> ErrVarIntTooLong]
                 ELSE read_varint_loop(Tail(buf), r, shift + 7)

read_varint(buf) == read_varint_loop(buf, 0, 0)

(***************************************************************************)
(* PacketReader::get_varint_size: `value as u32`, then shifts of 7 until 0.*)
(* The first shift of a negative value is done on its u32 image:           *)
(* (v + 2^32) >> 7 = 2^25 + floor(v / 128).                                *)
(***************************************************************************)
RECURSIVE varint_size_loop(_)
varint_size_loop(val) ==
    IF val \div 128 = 0 THEN 1 ELSE 1 + varint_size_loop(val \div 128)

get_varint_size(value) ==
    IF value >= 0
    THEN varint_size_loop(value)
    ELSE 1 + varint_size_loop(Pow2(25) + (value \div 128))

(***************************************************************************)
(* PacketReader::write_varint for the values the server writes (lengths,   *)
(* ids, counts: all non-negative).  `value >>= 7` is an arithmetic shift.  *)
(***************************************************************************)
RECURSIVE write_varint(_)
write_varint(value) ==
    LET byte == value % (SEGMENT_BITS + 1)
        next == value \div 128
    IN IF next # 0
       THEN <<byte + CONTINUE_BIT>> \o write_varint(next)
       ELSE <<byte>>

\* One pass through the body of the loop of write_varint, for any i32:
\* `value as u8 & SEGMENT_BITS` is value mod 128, `value >>= 7` on an i32
\* is the arithmetic shift (floor of value / 128), and the loop breaks when
\* the shifted value is 0.
write_varint_iteration(value, buf) ==
    LET byte == value % (SEGMENT_BITS + 1)
        next == value \div 128
    IN [value |-> next,
        buf |-> Append(buf, IF next # 0 THEN byte + CONTINUE_BIT ELSE byte),
        done |-> next = 0]

write_string(value) == write_varint(Len(value)) \o value

write_identifier(namespace, path) == write_string(namespace \o <<58>> \o path)

(***************************************************************************)
(* std::str::from_utf8 as used by read_string: well-formed UTF-8 only.     *)
(***************************************************************************)
IsCont(b) == b >= 128 /\ b <= 191

RECURSIVE ValidUtf8(_)
ValidUtf8(bs) ==
    IF bs = <<>> THEN TRUE
    ELSE LET b == bs[1]
             n == Len(bs)
         IN IF b < 128 THEN ValidUtf8(Tail(bs))
            ELSE IF b >= 194 /\ b <= 223
                 THEN n >= 2 /\ IsCont(bs[2]) /\ ValidUtf8(Drop(bs, 2))
            ELSE IF b >= 224 /\ b <= 239
                 THEN /\ n >= 3
                      /\ IsCont(bs[2]) /\ IsCont(bs[3])
                      /\ (b = 224 => bs[2] >= 160)
                      /\ (b = 237 => bs[2] <= 159)
                      /\ ValidUtf8(Drop(bs, 3))
            ELSE IF b >= 240 /\ b <= 244
                 THEN /\ n >= 4
                      /\ IsCont(bs[2]) /\ IsCont(bs[3]) /\ IsCont(bs[4])
                      /\ (b = 240 => bs[2] >= 144)
                      /\ (b = 244 => bs[2] <= 143)
                      /\ ValidUtf8(Drop(bs, 4))
            ELSE FALSE

(***************************************************************************)
(* Field readers (reader.rs).  Each returns [ok, val, rest, err]; rest is  *)
(* the cursor the call leaves in *buf.                                     *)
(***************************************************************************)
Fail(rest, err) == [ok |-> FALSE, val |-> 0, rest |-> rest, err |-> err]

Done(val, rest) == [ok |-> TRUE, val |-> val, rest |-> rest, err |-> NoErr]

read_string(buf) ==
    LET l == read_varint(buf)
    IN IF ~l.ok THEN Fail(l.rest, l.err)
       ELSE IF l.val < 0
            THEN Fail(l.rest, ErrProtocol("String length cannot be negative"))
       ELSE IF Len(l.rest) < l.val
            THEN Fail(l.rest, ErrUnderrun("String length exceeds buffer size"))
       ELSE IF ~ValidUtf8(Take(l.rest, l.val))
            THEN Fail(l.rest, ErrUtf8)
       ELSE Done(Take(l.rest, l.val), Drop(l.rest, l.val))

read_byte(buf) ==
    IF buf = <<>> THEN Fail(buf, ErrUnderrun("Not enough bytes for byte"))
    ELSE Done(IF buf[1] >= 128 THEN buf[1] - 256 ELSE buf[1], Tail(buf))

read_unsigned_byte(buf) ==
    IF buf = <<>>
    THEN Fail(buf, ErrUnderrun("Not enough bytes for unsigned byte"))
    ELSE Done(buf[1], Tail(buf))

read_boolean(buf) ==
    IF buf = <<>> THEN Fail(buf, ErrUnderrun("Not enough bytes for boolean"))
    ELSE Done(buf[1] # 0, Tail(buf))

read_unsigned_short(buf) ==
    IF Len(buf) < 2
    THEN Fail(buf, ErrUnderrun("Not enough bytes for unsigned short"))
    ELSE Done(buf[1] * 256 + buf[2], Drop(buf, 2))

\* An i64 is kept as four 16-bit limbs, most significant first: the limbs
\* are the big-endian accumulation `result |= buf[i] << ((7 - i) * 8)`.
read_long(buf) ==
    IF Len(buf) < 8 THEN Fail(buf, ErrUnderrun("Not enough bytes for long"))
    ELSE Done(<<buf[1] * 256 + buf[2], buf[3] * 256 + buf[4],
                buf[5] * 256 + buf[6], buf[7] * 256 + buf[8]>>, Drop(buf, 8))

read_plugin_message(buf) ==
    LET c == read_string(buf)
    IN IF ~c.ok THEN Fail(c.rest, c.err)
       ELSE Done([channel |-> c.val, data |-> c.rest], <<>>)

\* str::split(sep): the pieces between the separators, one more than there
\* are separators
RECURSIVE split(_, _)
split(s, sep) ==
    IF s = <<>> THEN << <<>> >>
    ELSE LET parts == split(Tail(s), sep)
         IN IF Head(s) = sep THEN << <<>> >> \o parts
            ELSE << <<Head(s)>> \o Head(parts) >> \o Tail(parts)

\* PacketReader::read_identifier: the string split on every ':' (byte 58)
read_identifier(buf) ==
    LET full_id == read_string(buf)
    IN IF ~full_id.ok THEN Fail(full_id.rest, full_id.err)
       ELSE LET parts == split(full_id.val, 58)
            IN IF Len(parts) # 2
               THEN Fail(full_id.rest, ErrProtocol("Invalid identifier format"))
               ELSE Done([namespace |-> parts[1], path |-> parts[2]],
                         full_id.rest)

\* BufMut::put_i64: the eight bytes of the value, big-endian.
put_i64(limbs) ==
    <<limbs[1] \div 256, limbs[1] % 256, limbs[2] \div 256, limbs[2] % 256,
      limbs[3] \div 256, limbs[3] % 256, limbs[4] \div 256, limbs[4] % 256>>

(***************************************************************************)
(* Text the server writes, as the bytes of the Rust string literals.       *)
(***************************************************************************)
StrMinecraft == <<109, 105, 110, 101, 99, 114, 97, 102, 116>>
StrCore == <<99, 111, 114, 101>>
StrVersion == <<49, 46, 50, 49, 46, 49>>
\* serde_json's to_string of the json! value of send_status_response
StatusJson ==
    <<123, 34, 100, 101, 115, 99, 114, 105, 112, 116, 105, 111, 110, 34, 58,
      123, 34, 116, 101, 120, 116, 34, 58, 34, 72, 101, 108, 108, 111, 32,
      119, 111, 114, 108, 100, 33, 34, 125, 44, 34, 112, 108, 97, 121, 101,
      114, 115, 34, 58, 123, 34, 109, 97, 120, 34, 58, 49, 48, 48, 44, 34,
      111, 110, 108, 105, 110, 101, 34, 58, 52, 44, 34, 115, 97, 109, 112,
      108, 101, 34, 58, 91, 123, 34, 105, 100, 34, 58, 34, 48, 48, 48, 48,
      48, 48, 48, 48, 45, 48, 48, 48, 48, 45, 48, 48, 48, 48, 45, 48, 48,
      48, 48, 45, 48, 48, 48, 48, 48, 48, 48, 48, 48, 48, 48, 49, 34, 44,
      34, 110, 97, 109, 101, 34, 58, 34, 80, 108, 97, 121, 101, 114, 34,
      125, 93, 125, 44, 34, 118, 101, 114, 115, 105, 111, 110, 34, 58, 123,
      34, 110, 97, 109, 101, 34, 58, 34, 49, 46, 50, 49, 46, 49, 34, 44,
      34, 112, 114, 111, 116, 111, 99, 111, 108, 34, 58, 55, 54, 55, 125,
      125>>
\* Uuid::parse_str("00000000-0000-0000-0000-000000000001").as_bytes()
LoginUuid == <<0, 0, 0, 0, 0, 0, 0, 0, 0, 0, 0, 0, 0, 0, 0, 1>>

(***************************************************************************)
(* Outbound frames of connection.rs.                                       *)
(***************************************************************************)
send_status_response ==
    LET string_length == Len(StatusJson)
        total_length == string_length + get_varint_size(string_length)
                          + get_varint_size(STATUS_RESPONSE_PACKET_ID)
    IN write_varint(total_length) \o write_varint(STATUS_RESPONSE_PACKET_ID)
         \o write_string(StatusJson)

PongBody(payload) == write_varint(PING_REQUEST_PACKET_ID) \o put_i64(payload)

\* variant of send_pong_response that declares the 8 payload bytes only
send_pong_response_length8(payload) == write_varint(8) \o PongBody(payload)

send_pong_response(payload) == write_varint(9) \o PongBody(payload)

send_login_success(username) ==
    LET content == write_varint(LOGIN_SUCCESS_PACKET_ID) \o LoginUuid
                     \o write_string(username) \o write_varint(0) \o <<0>>
    IN write_varint(Len(content)) \o content

send_known_packs ==
    LET content == write_varint(CLIENTBOUND_KNOWN_PACKS_ID) \o write_varint(1)
                     \o write_string(StrMinecraft) \o write_string(StrCore)
                     \o write_string(StrVersion)
    IN write_varint(Len(content)) \o content

\* variant of send_finish_configuration whose length counts the prefix too
send_finish_configuration_counting_prefix ==
    LET packet == write_varint(FINISH_CONFIGURATION_PACKET_ID)
    IN write_varint(Len(packet) + 1) \o packet

send_finish_configuration ==
    LET packet == write_varint(FINISH_CONFIGURATION_PACKET_ID)
    IN write_varint(Len(packet)) \o packet

(***************************************************************************)
(* Registry encoder (registry/entry.rs, registry/manager.rs).              *)
(***************************************************************************)
\* position of the first ':' (byte 58) of a name, 0 when there is none
RECURSIVE FirstColon(_, _)
FirstColon(name, i) ==
    IF i > Len(name) THEN 0
    ELSE IF name[i] = 58 THEN i ELSE FirstColon(name, i + 1)

\* variant of RegistryEntry::new that puts every name under "minecraft"
RegistryEntry_new_unsplit(name) == [namespace |-> StrMinecraft, name |-> name]

\* RegistryEntry::new: split_once(':'), namespace "minecraft" by default
RegistryEntry_new(name) ==
    LET c == FirstColon(name, 1)
    IN IF c > 0
       THEN [namespace |-> SubSeq(name, 1, c - 1),
             name |-> SubSeq(name, c + 1, Len(name))]
       ELSE [namespace |-> StrMinecraft, name |-> name]

\* RegistryEntry::write_to followed by the `Has Data = false` byte
EntryBytes(entry) ==
    LET e == RegistryEntry_new(entry)
    IN write_identifier(e.namespace, e.name) \o <<0>>

RECURSIVE EntriesBytes(_)
EntriesBytes(entries) ==
    IF entries = <<>> THEN <<>>
    ELSE EntryBytes(Head(entries)) \o EntriesBytes(Tail(entries))

write_registry_packet(registry_name, entries) ==
    LET packet == write_varint(REGISTRY_DATA_ID)
                    \o write_identifier(StrMinecraft, registry_name)
                    \o write_varint(Len(entries)) \o EntriesBytes(entries)
    IN write_varint(Len(packet)) \o packet

\* The registry types in the order write_registry_data sends them: the wire
\* name and the RegistryData field whose keys are the entries.
RegistryOrder ==
    <<[name |-> <<119, 111, 114, 108, 100, 103, 101, 110, 47, 98, 105, 111, 109, 101>>,
       field |-> "biomes"],
      [name |-> <<99, 104, 97, 116, 95, 116, 121, 112, 101>>,
       field |-> "chat_types"],
      [name |-> <<116, 114, 105, 109, 95, 112, 97, 116, 116, 101, 114, 110>>,
       field |-> "trim_patterns"],
      [name |-> <<116, 114, 105, 109, 95, 109, 97, 116, 101, 114, 105, 97, 108>>,
       field |-> "trim_materials"],
      [name |-> <<119, 111, 108, 102, 95, 118, 97, 114, 105, 97, 110, 116>>,
       field |-> "wolf_variants"],
      [name |-> <<112, 97, 105, 110, 116, 105, 110, 103, 95, 118, 97, 114, 105, 97, 110, 116>>,
       field |-> "painting_variants"],
      [name |-> <<100, 105, 109, 101, 110, 115, 105, 111, 110, 95, 116, 121, 112, 101>>,
       field |-> "dimension_types"],
      [name |-> <<100, 97, 109, 97, 103, 101, 95, 116, 121, 112, 101>>,
       field |-> "damage_types"],
      [name |-> <<98, 97, 110, 110, 101, 114, 95, 112, 97, 116, 116, 101, 114, 110>>,
       field |-> "banner_patterns"],
      [name |-> <<101, 110, 99, 104, 97, 110, 116, 109, 101, 110, 116>>,
       field |-> "enchantments"],
      [name |-> <<106, 117, 107, 101, 98, 111, 120, 95, 115, 111, 110, 103>>,
       field |-> "jukebox_songs"]>>

\* The catalog RegistryManager::new deserialises from default_registry.json:
\* per RegistryData field the keys in the document's definition order.  The
\* document is data outside the source files; this is a small catalog with
\* an empty registry, single-entry registries, a key that carries its own
\* namespace and one registry with two keys.
RegistryData ==
    [biomes |-> <<<<112>>>>,
     chat_types |-> <<<<99>>>>,
     trim_patterns |-> <<<<116>>>>,
     trim_materials |-> <<<<109>>>>,
     wolf_variants |-> <<<<119>>>>,
     painting_variants |-> <<<<120, 58, 97>>>>,
     dimension_types |-> <<<<111>>, <<101>>>>,
     damage_types |-> <<<<100>>>>,
     banner_patterns |-> <<<<98>>>>,
     enchantments |-> <<<<101>>>>,
     jukebox_songs |-> <<>>]

RECURSIVE MaxLen(_)
MaxLen(lens) ==
    IF lens = <<>> THEN 0
    ELSE LET m == MaxLen(Tail(lens))
         IN IF Len(Head(lens)) > m THEN Len(Head(lens)) ELSE m

\* the largest number of keys of one registry of the catalog
MaxEntries ==
    MaxLen([i \in 1..Len(RegistryOrder) |-> RegistryData[RegistryOrder[i].field]])

\* The maps of RegistryData are std HashMaps: keys() iterates in an order the
\* hasher picks.  An iteration order is a permutation of the positions
\* 1..MaxEntries; a map yields its keys in that order of their positions.
KeyOrders ==
    {p \in [1..MaxEntries -> 1..MaxEntries] :
        \A i, j \in 1..MaxEntries : i # j => p[i] # p[j]}

RECURSIVE KeysFrom(_, _, _)
KeysFrom(defs, ord, i) ==
    IF i > MaxEntries THEN <<>>
    ELSE (IF ord[i] <= Len(defs) THEN <<defs[ord[i]]>> ELSE <<>>)
           \o KeysFrom(defs, ord, i + 1)

keys(field, ord) == KeysFrom(RegistryData[field], ord, 1)

\* RegistryManager::write_registry_data: one frame per registry type.
write_registry_data(ord) ==
    [i \in 1..Len(RegistryOrder) |->
        write_registry_packet(RegistryOrder[i].name,
                              keys(RegistryOrder[i].field, ord))]

(***************************************************************************)
(* Tag encoder (registry/manager.rs, tag/mod.rs).                          *)
(***************************************************************************)
TagOrder ==
    <<[name |-> <<98, 97, 110, 110, 101, 114, 95, 112, 97, 116, 116, 101, 114, 110>>,
       field |-> "banner_patterns"],
      [name |-> <<98, 108, 111, 99, 107>>,
       field |-> "blocks"],
      [name |-> <<99, 97, 116, 95, 118, 97, 114, 105, 97, 110, 116>>,
       field |-> "cat_variants"],
      [name |-> <<100, 97, 109, 97, 103, 101, 95, 116, 121, 112, 101>>,
       field |-> "damage_types"],
      [name |-> <<101, 110, 99, 104, 97, 110, 116, 109, 101, 110, 116>>,
       field |-> "enchantments"],
      [name |-> <<101, 110, 116, 105, 116, 121, 95, 116, 121, 112, 101>>,
       field |-> "entity_types"],
      [name |-> <<102, 108, 117, 105, 100>>,
       field |-> "fluids"],
      [name |-> <<103, 97, 109, 101, 95, 101, 118, 101, 110, 116>>,
       field |-> "game_events"],
      [name |-> <<105, 110, 115, 116, 114, 117, 109, 101, 110, 116>>,
       field |-> "instruments"],
      [name |-> <<105, 116, 101, 109>>,
       field |-> "items"],
      [name |-> <<112, 97, 105, 110, 116, 105, 110, 103, 95, 118, 97, 114, 105, 97, 110, 116>>,
       field |-> "painting_variants"],
      [name |-> <<112, 111, 105, 110, 116, 95, 111, 102, 95, 105, 110, 116, 101, 114, 101, 115, 116, 95, 116, 121, 112, 101>>,
       field |-> "point_of_interest_types"],
      [name |-> <<119, 111, 114, 108, 100, 103, 101, 110, 47, 98, 105, 111, 109, 101>>,
       field |-> "worldgen_biomes"]>>

\* The TagData deserialised from default_tags.json (data outside the source
\* files): per field its tag groups; most types have none.
TagGroup(name, entries) ==
    [tag_name |-> [namespace |-> StrMinecraft, name |-> name],
     entries |-> entries]

TagData ==
    [banner_patterns |-> <<>>,
     blocks |-> <<TagGroup(<<97>>, <<0, 1>>)>>,
     cat_variants |-> <<>>,
     damage_types |-> <<>>,
     enchantments |-> <<>>,
     entity_types |-> <<>>,
     fluids |-> <<>>,
     game_events |-> <<>>,
     instruments |-> <<>>,
     items |-> <<TagGroup(<<98>>, <<>>), TagGroup(<<99>>, <<200>>)>>,
     painting_variants |-> <<>>,
     point_of_interest_types |-> <<>>,
     worldgen_biomes |-> <<>>]

RECURSIVE VarintsBytes(_)
VarintsBytes(ids) ==
    IF ids = <<>> THEN <<>>
    ELSE write_varint(Head(ids)) \o VarintsBytes(Tail(ids))

RECURSIVE TagGroupsBytes(_)
TagGroupsBytes(tags) ==
    IF tags = <<>> THEN <<>>
    ELSE LET tag == Head(tags)
         IN write_identifier(tag.tag_name.namespace, tag.tag_name.name)
              \o write_varint(Len(tag.entries)) \o VarintsBytes(tag.entries)
              \o TagGroupsBytes(Tail(tags))

write_tag_groups(registry_name, tags) ==
    IF tags = <<>> THEN <<>>
    ELSE write_identifier(StrMinecraft, registry_name)
           \o write_varint(Len(tags)) \o TagGroupsBytes(tags)

\* the 13 write_tag_groups calls of write_update_tags, from the i-th on, for
\* a deserialised tag_data
RECURSIVE TagSectionsOf(_, _)
TagSectionsOf(tag_data, i) ==
    IF i > Len(TagOrder) THEN <<>>
    ELSE write_tag_groups(TagOrder[i].name, tag_data[TagOrder[i].field])
           \o TagSectionsOf(tag_data, i + 1)

\* variant of registry_count_of that counts every registry type
registry_count_all(tag_data) == Len(TagOrder)

\* `let registry_count = [(!tag_data.<field>.is_empty()) as i32, ...].sum()`
registry_count_of(tag_data) ==
    Cardinality({i \in 1..Len(TagOrder) : tag_data[TagOrder[i].field] # <<>>})

\* write_update_tags for a deserialised tag_data
write_update_tags_of(tag_data) ==
    LET packet == write_varint(UPDATE_TAGS_ID)
                    \o write_varint(registry_count_of(tag_data))
                    \o TagSectionsOf(tag_data, 1)
    IN write_varint(Len(packet)) \o packet

TagSections(i) == TagSectionsOf(TagData, i)

registry_count == registry_count_of(TagData)

write_update_tags == write_update_tags_of(TagData)

(***************************************************************************)
(* Protocol state machine: the `match self.state` of handle_packet.        *)
(* A dispatch returns what handle_packet does with the frame: "continue"   *)
(* (falls through to buffer.advance and Ok(true)), "close" (Ok(false)) or  *)
(* "err" (Err(e)), the phase it leaves and the frames it wrote before.     *)
(* Socket writes are taken to succeed.                                     *)
(***************************************************************************)
Continue(st, frames) ==
    [ret |-> "continue", state |-> st, frames |-> frames, err |-> NoErr]

Close(st, frames) ==
    [ret |-> "close", state |-> st, frames |-> frames, err |-> NoErr]

Error(st, err) ==
    [ret |-> "err", state |-> st, frames |-> <<>>, err |-> err]

\* One field read, by the reader the code calls for it.
ReadField(kind, buf) ==
    CASE kind = "varint" -> read_varint(buf)
      [] kind = "string" -> read_string(buf)
      [] kind = "byte" -> read_byte(buf)
      [] kind = "unsigned_byte" -> read_unsigned_byte(buf)
      [] kind = "boolean" -> read_boolean(buf)
      [] kind = "unsigned_short" -> read_unsigned_short(buf)
      [] kind = "long" -> read_long(buf)

\* A run of `let x = PacketReader::read_...(&mut packet_data)?;` lines: the
\* first failing read ends the run with its error.
RECURSIVE ReadFields(_, _)
ReadFields(kinds, buf) ==
    IF kinds = <<>> THEN [ok |-> TRUE, vals |-> <<>>, rest |-> buf, err |-> NoErr]
    ELSE LET r == ReadField(Head(kinds), buf)
         IN IF ~r.ok
            THEN [ok |-> FALSE, vals |-> <<>>, rest |-> r.rest, err |-> r.err]
            ELSE LET t == ReadFields(Tail(kinds), r.rest)
                 IN [ok |-> t.ok, vals |-> <<r.val>> \o t.vals,
                     rest |-> t.rest, err |-> t.err]

\* variant of match_next_state whose default arm enters Login
match_next_state_default_login(st, next_state) ==
    IF next_state = 1 THEN Continue("Status", <<>>)
    ELSE Continue("Login", <<>>)

\* `match next_state` of the handshake arm
match_next_state(st, next_state) ==
    IF next_state = 1 THEN Continue("Status", <<>>)
    ELSE IF next_state = 2 THEN Continue("Login", <<>>)
    ELSE Error(st, ErrProtocol("Unexpected next state"))

\* variant of unknown_packet that treats an unknown id as a protocol error
unknown_packet_rejected(st) == Error(st, ErrProtocol("Unknown packet id"))

\* an id the phase has no arm for: warn! and fall through
unknown_packet(st) == Continue(st, <<>>)

on_handshake(st, packet_id, packet_data) ==
    IF packet_id = HANDSHAKE_PACKET_ID
    THEN LET f == ReadFields(<<"varint", "string", "unsigned_short", "varint">>,
                             packet_data)
         IN IF ~f.ok THEN Error(st, f.err)
            ELSE match_next_state(st, f.vals[4])
    ELSE unknown_packet(st)

\* variant of on_ping_request that skips a ping it cannot read
on_ping_request_lenient(st, packet_data) ==
    IF read_long(packet_data).ok
    THEN Close(st, <<send_pong_response(read_long(packet_data).val)>>)
    ELSE Continue(st, <<>>)

on_ping_request(st, packet_data) ==
    LET payload == read_long(packet_data)
    IN IF ~payload.ok THEN Error(st, payload.err)
       ELSE Close(st, <<send_pong_response(payload.val)>>)

on_status(st, packet_id, packet_data) ==
    IF packet_id = STATUS_REQUEST_PACKET_ID
    THEN Continue(st, <<send_status_response>>)
    ELSE IF packet_id = PING_REQUEST_PACKET_ID
    THEN on_ping_request(st, packet_data)
    ELSE unknown_packet(st)

\* variant of on_login_start that enters Configuration without waiting for
\* the acknowledgment
on_login_start_advancing(st, packet_data) ==
    LET username == read_string(packet_data)
    IN IF ~username.ok THEN Error(st, username.err)
       ELSE Continue("Configuration", <<send_login_success(username.val)>>)

on_login_start(st, packet_data) ==
    LET username == read_string(packet_data)
    IN IF ~username.ok THEN Error(st, username.err)
       ELSE Continue(st, <<send_login_success(username.val)>>)

\* variant of on_login_acknowledged that skips the Configuration phase
on_login_acknowledged_to_play(st) == Continue("Play", <<send_known_packs>>)

on_login_acknowledged(st) == Continue("Configuration", <<send_known_packs>>)

on_login(st, packet_id, packet_data) ==
    IF packet_id = LOGIN_START_PACKET_ID
    THEN on_login_start(st, packet_data)
    ELSE IF packet_id = LOGIN_ACKNOWLEDGED_PACKET_ID
    THEN on_login_acknowledged(st)
    ELSE unknown_packet(st)

on_client_information(st, packet_data) ==
    LET f == ReadFields(<<"string", "byte", "varint", "boolean",
                          "unsigned_byte", "varint", "boolean", "boolean">>,
                        packet_data)
    IN IF ~f.ok THEN Error(st, f.err) ELSE Continue(st, <<>>)

on_plugin_message(st, packet_data) ==
    LET m == read_plugin_message(packet_data)
    IN IF ~m.ok THEN Error(st, m.err) ELSE Continue(st, <<>>)

on_finish_configuration(st) == Continue("Play", <<>>)

\* `for _ in 0..pack_count`: three strings per pack, none for a count <= 0
RECURSIVE read_known_packs(_, _)
read_known_packs(buf, pack_count) ==
    IF pack_count <= 0 THEN [ok |-> TRUE, rest |-> buf, err |-> NoErr]
    ELSE LET f == ReadFields(<<"string", "string", "string">>, buf)
         IN IF ~f.ok THEN [ok |-> FALSE, rest |-> f.rest, err |-> f.err]
            ELSE read_known_packs(f.rest, pack_count - 1)

\* send_registry_data (write_registry_data only) then send_finish_configuration
known_packs_response(ord) ==
    write_registry_data(ord) \o <<send_finish_configuration>>

on_known_packs(st, packet_data, ord) ==
    LET pack_count == read_varint(packet_data)
    IN IF ~pack_count.ok THEN Error(st, pack_count.err)
       ELSE LET packs == read_known_packs(pack_count.rest, pack_count.val)
            IN IF ~packs.ok THEN Error(st, packs.err)
               ELSE Continue(st, known_packs_response(ord))

on_configuration(st, packet_id, packet_data, ord) ==
    IF packet_id = CLIENT_INFORMATION_PACKET_ID
    THEN on_client_information(st, packet_data)
    ELSE IF packet_id = PLUGIN_MESSAGE_PACKET_ID
    THEN on_plugin_message(st, packet_data)
    ELSE IF packet_id = FINISH_CONFIGURATION_PACKET_ID
    THEN on_finish_configuration(st)
    ELSE IF packet_id = KNOWN_PACKS_PACKET_ID
    THEN on_known_packs(st, packet_data, ord)
    ELSE unknown_packet(st)

\* variant of on_play that ends the connection on any packet
on_play_closing(st, packet_id) == Close(st, <<>>)

on_play(st, packet_id) == Continue(st, <<>>)

dispatch(st, packet_id, packet_data, ord) ==
    CASE st = "Handshake" -> on_handshake(st, packet_id, packet_data)
      [] st = "Status" -> on_status(st, packet_id, packet_data)
      [] st = "Login" -> on_login(st, packet_id, packet_data)
      [] st = "Configuration" -> on_configuration(st, packet_id, packet_data, ord)
      [] st = "Play" -> on_play(st, packet_id)

(***************************************************************************)
(* Packet framer: Connection::handle_packet.  The result adds to the       *)
(* dispatch result the receive buffer the call leaves and the              *)
(* (packet_id, payload) handed to the state machine, if any.               *)
(***************************************************************************)
\* variant of wait_for_data that discards the bytes received so far
wait_for_data_discarding(st, buffer) ==
    [ret |-> "continue", state |-> st, buffer |-> <<>>, frames |-> <<>>,
     disp |-> <<>>, err |-> NoErr]

\* `return Ok(true)` before anything was consumed ("not enough data yet")
wait_for_data(st, buffer) ==
    [ret |-> "continue", state |-> st, buffer |-> buffer, frames |-> <<>>,
     disp |-> <<>>, err |-> NoErr]

\* variant of advance that leaves the bytes of the length prefix behind
advance_payload_only(buffer, total_size) == Drop(buffer, total_size - 1)

\* buffer.advance(total_size)
advance(buffer, total_size) == Drop(buffer, total_size)

\* variant of frame_slice that runs to the end of the buffer
frame_slice_to_end(buffer, length_size, total_size) ==
    SubSeq(buffer, length_size + 1, Len(buffer))

\* &buffer[length_size..total_size]
frame_slice(buffer, length_size, total_size) ==
    SubSeq(buffer, length_size + 1, total_size)

\* what handle_packet leaves once `match self.state` has produced d for the
\* packet (packet_id, packet_data): the buffer is advanced only on the path
\* that falls out of the match
after_match(buffer, total_size, packet_id, packet_data, d) ==
    [ret |-> d.ret, state |-> d.state,
     buffer |-> IF d.ret = "continue"
                THEN advance(buffer, total_size) ELSE buffer,
     frames |-> d.frames,
     disp |-> <<[id |-> packet_id, payload |-> packet_data]>>,
     err |-> d.err]

\* variant of packet_id_error that waits for more data
packet_id_error_waiting(st, buffer, err) == wait_for_data(st, buffer)

\* `PacketReader::read_varint(&mut packet_data)?` on the packet id: the
\* error is returned, nothing was consumed
packet_id_error(st, buffer, err) ==
    [ret |-> "err", state |-> st, buffer |-> buffer, frames |-> <<>>,
     disp |-> <<>>, err |-> err]

handle_frame(st, buffer, length_size, total_size, ord) ==
    LET packet_id == read_varint(frame_slice(buffer, length_size, total_size))
    IN IF ~packet_id.ok
       THEN packet_id_error(st, buffer, packet_id.err)
       ELSE after_match(buffer, total_size, packet_id.val, packet_id.rest,
                        dispatch(st, packet_id.val, packet_id.rest, ord))

\* `len as usize` of a negative length is 2^64 + len, and length_size is 5:
\* for len >= -5 the sum length_size + packet_length overflows usize.  A build
\* with overflow checks panics at the addition; a build without wraps to
\* 5 + len < 5 <= buffer.len() and panics at the slice [5..5+len].  For
\* len <= -6 the sum is a number no buffer length reaches.
handle_packet(st, buffer, ord) ==
    LET len == read_varint(buffer)
    IN IF ~len.ok
       THEN IF len.err.kind = "VarInt"
            THEN wait_for_data(st, buffer)
            ELSE [ret |-> "err", state |-> st, buffer |-> buffer,
                  frames |-> <<>>, disp |-> <<>>, err |-> len.err]
       ELSE LET length_size == get_varint_size(len.val)
            IN IF len.val < 0
               THEN IF len.val + length_size >= 0
                    THEN [ret |-> "panic", state |-> st, buffer |-> buffer,
                          frames |-> <<>>, disp |-> <<>>, err |-> NoErr]
                    ELSE wait_for_data(st, buffer)
               ELSE IF Len(buffer) - length_size < len.val
                    THEN wait_for_data(st, buffer)
                    ELSE handle_frame(st, buffer, length_size,
                                      length_size + len.val, ord)

(***************************************************************************)
(* The client: what it may put on the wire.  A framed item is a frame      *)
(* VarInt(length) ++ VarInt(id) ++ payload; a raw item is a byte string    *)
(* that is no frame.                                                       *)
(***************************************************************************)
Framed(id, payload) ==
    LET body == write_varint(id) \o payload
    IN [framed |-> TRUE, id |-> id, payload |-> payload,
        bytes |-> write_varint(Len(body)) \o body]

Raw(bytes) == [framed |-> FALSE, id |-> 0, payload |-> <<>>, bytes |-> bytes]

\* handshake: protocol version, server address "a", port, next state
HandshakeItem(next_state) ==
    Framed(HANDSHAKE_PACKET_ID,
           write_varint(PROTOCOL_VERSION) \o write_string(<<97>>)
             \o <<99, 221>> \o write_varint(next_state))

\* the 8 payload bytes of the ping of the status scenario: 0x0000000000001234
PingPayload == <<0, 0, 0, 0, 0, 0, 18, 52>>

ItemHS1 == "HS1"
ItemHS2 == "HS2"
ItemHS3 == "HS3"
ItemEmpty0 == "Empty0"
ItemPing == "Ping"
ItemLoginStart == "LoginStart"
ItemAck == "Ack"
ItemKnownPacks == "KnownPacks"
ItemUnknown == "Unknown"
ItemPlugin == "Plugin"
ItemClientInfo == "ClientInfo"
ItemOversized == "Oversized"
ItemZeroLength == "ZeroLength"
ItemNegative == "Negative"
ItemHS0 == "HS0"
ItemShortHandshake == "ShortHandshake"
ItemShortPing == "ShortPing"
ItemShortKnownPacks == "ShortKnownPacks"

Items ==
    (ItemHS1 :> HandshakeItem(1)) @@
    (ItemHS2 :> HandshakeItem(2)) @@
    (ItemHS3 :> HandshakeItem(3)) @@
    \* id 0x00 without payload: the status request
    (ItemEmpty0 :> Framed(0, <<>>)) @@
    (ItemPing :> Framed(PING_REQUEST_PACKET_ID, PingPayload)) @@
    \* login start, username "A"
    (ItemLoginStart :> Framed(LOGIN_START_PACKET_ID, write_string(<<65>>))) @@
    \* id 0x03 without payload: login acknowledged / finish configuration
    (ItemAck :> Framed(3, <<>>)) @@
    \* serverbound known packs: one pack ("m", "c", "1")
    (ItemKnownPacks :> Framed(KNOWN_PACKS_PACKET_ID,
             write_varint(1) \o write_string(<<109>>) \o write_string(<<99>>)
               \o write_string(<<49>>))) @@
    \* an id no phase has an arm for
    (ItemUnknown :> Framed(5, <<9>>)) @@
    \* plugin message: channel "b", one data byte
    (ItemPlugin :> Framed(PLUGIN_MESSAGE_PACKET_ID, write_string(<<98>>) \o <<1>>)) @@
    \* client information: locale "e", view distance 8, chat mode 0,
    \* colors on, skin parts 127, main hand 1, no filtering, listed
    (ItemClientInfo :> Framed(CLIENT_INFORMATION_PACKET_ID,
             write_string(<<101>>) \o <<8>> \o write_varint(0) \o <<1>>
               \o <<127>> \o write_varint(1) \o <<0>> \o <<1>>)) @@
    \* five bytes with the continuation bit set
    (ItemOversized :> Raw(<<255, 255, 255, 255, 255>>)) @@
    \* a frame of declared length 0
    (ItemZeroLength :> Raw(<<0>>)) @@
    \* the VarInt of -1 as a frame length
    (ItemNegative :> Raw(<<255, 255, 255, 255, 15>>)) @@
    (ItemHS0 :> HandshakeItem(0)) @@
    \* handshake whose address declares 5 bytes where 1 byte follows
    (ItemShortHandshake :>
        Framed(HANDSHAKE_PACKET_ID,
               write_varint(PROTOCOL_VERSION) \o <<5, 97>>)) @@
    \* ping with 4 payload bytes
    (ItemShortPing :> Framed(PING_REQUEST_PACKET_ID, <<0, 0, 18, 52>>)) @@
    \* known packs: one pack whose namespace declares 3 bytes where 1 follows
    (ItemShortKnownPacks :>
        Framed(KNOWN_PACKS_PACKET_ID, write_varint(1) \o <<3, 109>>))

ItemIds == DOMAIN Items

\* the status scenario: handshake(next-state=1), status request, ping
StatusScenario == <<ItemHS1, ItemEmpty0, ItemPing>>

\* A client session draws its items from one menu: the frames of the status
\* exchange, of the login exchange, of the configuration exchange, byte
\* strings that are no well-formed frame next to the handshakes, or frames
\* whose payload ends before their fields do.
Menus ==
    {{ItemHS1, ItemHS3, ItemEmpty0, ItemPing, ItemUnknown},
     {ItemHS2, ItemLoginStart, ItemAck, ItemKnownPacks, ItemPing, ItemUnknown},
     {ItemHS2, ItemAck, ItemKnownPacks, ItemPlugin, ItemClientInfo, ItemUnknown},
     {ItemHS1, ItemHS2, ItemHS0, ItemEmpty0, ItemOversized, ItemZeroLength,
      ItemNegative},
     {ItemHS1, ItemHS2, ItemAck, ItemShortHandshake, ItemShortPing,
      ItemShortKnownPacks, ItemUnknown}}

(***************************************************************************)
(* State of one connection task and of its socket.                         *)
(***************************************************************************)
VARIABLES
    state,       \* Connection.state, the phase
    buffer,      \* the receive buffer of handle_connection
    pc,          \* where the task is: "read" (awaiting socket.read), "loop"
                 \* (in the while loop), "closed" (returned Ok), "error"
                 \* (returned Err), "panic"
    iter,        \* handle_packet calls since the last socket read (saturates)
    out,         \* frames written to the socket, in order
    wire,        \* bytes the client has sent that the task has not read yet
    nsent,       \* number of items the client has sent
    pending,     \* ids of the items sent whose frame was not dispatched yet
    scen,        \* how many items of StatusScenario the client has sent, if
                 \* its first sends follow the scenario; -1 otherwise
    last,        \* the (packet_id, payload) last handed to the state machine
    menu,        \* the items this client session draws from
    op,          \* codec harness: the codec function applied, "none" before
    arg,         \* codec harness: the input it is applied to
    res,         \* codec harness: what it returned
    conns,       \* server: the connection tasks spawned by Server::run
    running      \* server: the task the single runtime thread is executing,
                 \* 0 when every task is suspended at an await

\* the variables of the codec harness; a connection leaves them alone
codec == <<op, arg, res>>

\* the variables of the server with several connections
server == <<conns, running>>

vars ==
    <<state, buffer, pc, iter, out, wire, nsent, pending, scen, last, menu,
      codec, server>>

\* Connection::new and the first lines of handle_connection, for a client
\* session that draws from menu m
InitWith(m) ==
    /\ state = "Handshake"
    /\ buffer = <<>>
    /\ pc = "read"
    /\ iter = 0
    /\ out = <<>>
    /\ wire = <<>>
    /\ nsent = 0
    /\ pending = <<>>
    /\ scen = 0
    /\ last = <<>>
    /\ menu = m

\* a slot of the server in which no connection was accepted yet
NoTask ==
    [state |-> "Handshake", buffer |-> <<>>, pc |-> "absent", out |-> <<>>,
     wire |-> <<>>, reads |-> <<>>, session |-> "none"]

\* the server has accepted no connection
ServerIdle ==
    /\ conns = [c \in 1..MaxConns |-> NoTask]
    /\ running = 0

\* no codec call under way
CodecIdle ==
    /\ op = "none"
    /\ arg = <<>>
    /\ res = <<>>

Init == (\E m \in Menus : InitWith(m)) /\ CodecIdle /\ ServerIdle

\* The client writes one item to its socket.  Items are sent while the task
\* awaits a read; at most MaxBurst are in flight (sent, not dispatched) at
\* a time.
Send(i) ==
    /\ i \in menu
    /\ pc = "read"
    /\ nsent < MaxSends
    /\ Len(pending) < MaxBurst
    /\ wire' = wire \o Items[i].bytes
    /\ nsent' = nsent + 1
    /\ pending' = Append(pending, i)
    /\ scen' = IF scen = Len(StatusScenario) THEN scen
               ELSE IF scen >= 0 /\ i = StatusScenario[scen + 1]
               THEN scen + 1 ELSE -1
    /\ UNCHANGED <<state, buffer, pc, iter, out, last, menu, codec, server>>

\* socket.read returns Ok(n), n > 0: the next n bytes of the stream are
\* appended to the buffer and the task enters the while loop.
SocketRead(n) ==
    /\ pc = "read"
    /\ n >= 1 /\ n <= Len(wire) /\ n <= TEMP_BUF_SIZE
    /\ buffer' = buffer \o Take(wire, n)
    /\ wire' = Drop(wire, n)
    /\ pc' = "loop"
    /\ iter' = 0
    /\ UNCHANGED <<state, out, nsent, pending, scen, last, menu, codec, server>>

\* socket.read returns Ok(0): the peer closed after all its bytes were read.
PeerClosed ==
    /\ pc = "read"
    /\ wire = <<>>
    /\ pc' = "closed"
    /\ UNCHANGED <<state, buffer, iter, out, wire, nsent, pending, scen, last,
                   menu, codec, server>>

\* socket.read returns Err(e)
ReadError ==
    /\ pc = "read"
    /\ pc' = "error"
    /\ UNCHANGED <<state, buffer, iter, out, wire, nsent, pending, scen, last,
                   menu, codec, server>>

\* what the `match self.handle_packet(&mut buffer).await` does with a result
after_packet(ret) ==
    CASE ret = "continue" -> "loop"
      [] ret = "close" -> "closed"
      [] ret = "err" -> "error"
      [] ret = "panic" -> "panic"

\* the state a call of handle_packet with result r leaves
handled(r) ==
    /\ state' = r.state
    /\ buffer' = r.buffer
    /\ out' = out \o r.frames
    /\ last' = IF r.disp # <<>> THEN r.disp ELSE last
    /\ pending' = IF r.disp # <<>> THEN Tail(pending) ELSE pending
    /\ pc' = after_packet(r.ret)

\* One iteration of `while !buffer.is_empty()`: one call of handle_packet.
HandlePacket ==
    /\ pc = "loop"
    /\ buffer # <<>>
    /\ \E ord \in KeyOrders : handled(handle_packet(state, buffer, ord))
    /\ iter' = Min(iter + 1, MaxIter)
    /\ UNCHANGED <<wire, nsent, scen, menu, codec, server>>

\* The while loop ends on an empty buffer: back to socket.read.
LoopExit ==
    /\ pc = "loop"
    /\ buffer = <<>>
    /\ pc' = "read"
    /\ UNCHANGED <<state, buffer, iter, out, wire, nsent, pending, scen, last,
                   menu, codec, server>>

Next ==
    \/ \E i \in ItemIds : Send(i)
    \/ \E n \in 1..Min(Len(wire), TEMP_BUF_SIZE) : SocketRead(n)
    \/ PeerClosed
    \/ ReadError
    \/ HandlePacket
    \/ LoopExit

Spec == Init /\ [][Next]_vars

TypeOK ==
    /\ state \in {"Handshake", "Status", "Login", "Configuration", "Play"}
    /\ pc \in {"read", "loop", "closed", "error", "panic"}
    /\ iter \in 0..MaxIter
    /\ nsent \in 0..MaxSends
    /\ scen \in -1..Len(StatusScenario)
    /\ Len(pending) <= MaxBurst

(***************************************************************************)
(* Codec harness: one call of a PacketReader function (or a write followed *)
(* by a read of what was written) on an input drawn from bounded sets.     *)
(* The connection does not take part.                                      *)
(***************************************************************************)
\* the values at which the VarInt encoding grows by a byte, and their
\* neighbours
VarintValues ==
    (0..MaxSmall) \cup
    {127, 128, 129, 255, 256, 16383, 16384, 2097151, 2097152, 268435455,
     268435456, I32_MAX - 1, I32_MAX}

ByteSamples == {0, 1, 3, 127, 128, 255}

ByteStrings == UNION {[1..n -> ByteSamples] : n \in 0..MaxBytes}

\* bytes appended behind an encoding, to see where a reader stops
Trailers == {<<>>, <<255>>, <<1, 128>>}

\* six bytes with the continuation bit set, and the four that are left of
\* the encoding of i32::MAX without its final byte
LongByteStrings ==
    {<<255, 255, 255, 255, 255, 255>>, <<255, 255, 255, 255>>,
     <<128, 128, 128, 128, 128, 1>>}

\* the readers a packet handler calls
ReaderKinds ==
    {"varint", "string", "byte", "unsigned_byte", "boolean", "unsigned_short",
     "long"}

\* the call of tests::test_registry_packet
StrDimensionType ==
    <<100, 105, 109, 101, 110, 115, 105, 111, 110, 95, 116, 121, 112, 101>>

TestEntries ==
    <<<<111, 118, 101, 114, 119, 111, 114, 108, 100>>,
      <<111, 118, 101, 114, 119, 111, 114, 108, 100, 95, 99, 97, 118, 101, 115>>,
      <<116, 104, 101, 95, 110, 101, 116, 104, 101, 114>>,
      <<116, 104, 101, 95, 101, 110, 100>>>>

\* entry names: "a", "x:a", "a:b:c", ":" and the empty name
EntrySamples ==
    {<<97>>, <<120, 58, 97>>, <<97, 58, 98, 58, 99>>, <<58>>, <<>>}

RegistryCalls ==
    {[name |-> n, entries |-> e] :
        n \in {<<97>>, StrDimensionType},
        e \in UNION {[1..k -> EntrySamples] : k \in 0..MaxEntryList}}
      \cup {[name |-> StrDimensionType, entries |-> TestEntries]}

\* tag catalogs: no type has tag groups, except that blocks, items and
\* worldgen_biomes each have one of a few lists of groups; next to them the
\* catalog above and one in which every type has a group
NoTags == [i \in 1..Len(TagOrder) |-> <<>>]

GroupLists ==
    {<<>>,
     <<TagGroup(<<97>>, <<>>)>>,
     <<TagGroup(<<97>>, <<0, 1>>)>>,
     <<TagGroup(<<98>>, <<>>), TagGroup(<<99>>, <<200>>)>>}

TagDataOf(lists) ==
    [banner_patterns |-> lists[1], blocks |-> lists[2],
     cat_variants |-> lists[3], damage_types |-> lists[4],
     enchantments |-> lists[5], entity_types |-> lists[6],
     fluids |-> lists[7], game_events |-> lists[8],
     instruments |-> lists[9], items |-> lists[10],
     painting_variants |-> lists[11],
     point_of_interest_types |-> lists[12], worldgen_biomes |-> lists[13]]

TagCatalogs ==
    {TagDataOf([NoTags EXCEPT ![2] = b, ![10] = i, ![13] = w]) :
        b \in GroupLists, i \in GroupLists, w \in GroupLists}
      \cup {TagData,
            TagDataOf([i \in 1..Len(TagOrder) |-> <<TagGroup(<<97>>, <<i>>)>>])}

\* i32 values of either sign, i32::MIN and i32::MAX among them
SignedValues ==
    {-I32_MAX - 1, -I32_MAX, -16384, -129, -128, -2, -1, 0, 1, 127, 128,
     16383, 16384, 2097152, 268435456, I32_MAX}

\* encoded strings with no, one or several ':', a byte behind some
IdentifierBytes ==
    {write_string(e) \o t : e \in EntrySamples, t \in {<<>>, <<7>>}}

CodecInputs ==
    {[kind |-> "value", v |-> v] : v \in VarintValues}
      \cup {[kind |-> "identifier", v |-> b] : b \in IdentifierBytes}
      \cup {[kind |-> "signed", v |-> v] : v \in SignedValues}
      \cup {[kind |-> "tags", v |-> t] : t \in TagCatalogs}
      \cup {[kind |-> "bytes", v |-> b] : b \in ByteStrings \cup LongByteStrings}
      \cup {[kind |-> "registry", v |-> c] : c \in RegistryCalls}

CodecInit ==
    /\ InitWith({})
    /\ op = "none"
    /\ arg \in CodecInputs
    /\ res = <<>>
    /\ ServerIdle

\* the connection variables, which the harness leaves alone
conn == <<state, buffer, pc, iter, out, wire, nsent, pending, scen, last, menu>>

\* PacketReader::write_varint(&mut buf, value) on an empty buf
WriteVarint ==
    /\ op = "none"
    /\ arg.kind = "value"
    /\ op' = "write_varint"
    /\ res' = write_varint(arg.v)
    /\ UNCHANGED <<arg, conn, server>>

\* PacketReader::read_varint on the bytes just written, followed by t
ReadWritten(t) ==
    /\ op = "write_varint"
    /\ op' = "round_trip"
    /\ res' = [written |-> res, trailer |-> t, read |-> read_varint(res \o t)]
    /\ UNCHANGED <<arg, conn, server>>

\* PacketReader::read_varint on the bytes just written without the last
ReadTruncated ==
    /\ op = "write_varint"
    /\ op' = "truncated"
    /\ res' = [written |-> res,
               read |-> read_varint(SubSeq(res, 1, Len(res) - 1))]
    /\ UNCHANGED <<arg, conn, server>>

\* one reader called with a cursor at the start of the bytes
ReadBytes(kind) ==
    /\ op = "none"
    /\ arg.kind = "bytes"
    /\ op' = kind
    /\ res' = ReadField(kind, arg.v)
    /\ UNCHANGED <<arg, conn, server>>

\* PacketReader::read_plugin_message with a cursor at the start of the bytes
ReadPluginMessage ==
    /\ op = "none"
    /\ arg.kind = "bytes"
    /\ op' = "plugin_message"
    /\ res' = read_plugin_message(arg.v)
    /\ UNCHANGED <<arg, conn, server>>

\* write_registry_packet(registry_name, entries)
WriteRegistryPacket ==
    /\ op = "none"
    /\ arg.kind = "registry"
    /\ op' = "write_registry_packet"
    /\ res' = write_registry_packet(arg.v.name, arg.v.entries)
    /\ UNCHANGED <<arg, conn, server>>

\* the frame write_update_tags builds for a deserialised tag_data
WriteUpdateTags ==
    /\ op = "none"
    /\ arg.kind = "tags"
    /\ op' = "write_update_tags"
    /\ res' = write_update_tags_of(arg.v)
    /\ UNCHANGED <<arg, conn, server>>

\* the loop of PacketReader::write_varint(&mut buf, value) on an empty buf,
\* one iteration at a time, until it breaks
WriteVarintIteration ==
    /\ arg.kind = "signed"
    /\ \/ /\ op = "none"
          /\ res' = write_varint_iteration(arg.v, <<>>)
       \/ /\ op = "write_varint_loop"
          /\ ~res.done
          /\ Len(res.buf) < MaxWritten
          /\ res' = write_varint_iteration(res.value, res.buf)
    /\ op' = "write_varint_loop"
    /\ UNCHANGED <<arg, conn, server>>

\* PacketReader::read_identifier with a cursor at the start of the bytes
ReadIdentifier ==
    /\ op = "none"
    /\ arg.kind = "identifier"
    /\ op' = "read_identifier"
    /\ res' = read_identifier(arg.v)
    /\ UNCHANGED <<arg, conn, server>>

CodecNext ==
    \/ WriteVarint
    \/ ReadIdentifier
    \/ WriteVarintIteration
    \/ \E t \in Trailers : ReadWritten(t)
    \/ ReadTruncated
    \/ \E kind \in ReaderKinds : ReadBytes(kind)
    \/ ReadPluginMessage
    \/ WriteRegistryPacket
    \/ WriteUpdateTags

CodecSpec == CodecInit /\ [][CodecNext]_vars

(***************************************************************************)
(* The server: Server::run accepts connections and spawns one task per     *)
(* connection on the runtime of main, which has a single thread            *)
(* (flavor = "current_thread").  A task runs from one await to the next;   *)
(* `running` is the task that holds the thread.  Each task owns its        *)
(* Connection and its receive buffer.                                      *)
(***************************************************************************)
\* what a client sends over the lifetime of its connection: the status
\* exchange, a frame of declared length 0, or nothing
Sessions ==
    ("status" :> Items[ItemHS1].bytes \o Items[ItemEmpty0].bytes
                   \o Items[ItemPing].bytes) @@
    ("fatal" :> Items[ItemZeroLength].bytes) @@
    ("idle" :> <<>>)

\* Connection::new(socket) for a client that will send session s, and the
\* empty buffer of handle_connection
Connection_new(s) ==
    [state |-> "Handshake", buffer |-> <<>>, pc |-> "read", out |-> <<>>,
     wire |-> Sessions[s], reads |-> <<>>, session |-> s]

\* variant of spawned_task in which an error of one task ends every task
spawned_task_propagating(cs, c, k) ==
    IF k.pc = "error"
    THEN [d \in DOMAIN cs |->
            IF d = c THEN k
            ELSE IF cs[d].pc = "absent" THEN cs[d]
            ELSE [cs[d] EXCEPT !.pc = "error"]]
    ELSE [cs EXCEPT ![c] = k]

\* the task spawned for connection c moves to k: the closure owns the
\* connection, and an Err of handle_connection is logged and dropped
spawned_task(cs, c, k) == [cs EXCEPT ![c] = k]

\* listener.accept() returns a socket: the next free slot gets a connection
Accept(s) ==
    /\ running = 0
    /\ \E c \in 1..MaxConns :
          /\ conns[c].pc = "absent"
          /\ \A d \in 1..(c - 1) : conns[d].pc # "absent"
          /\ conns' = spawned_task(conns, c, Connection_new(s))
    /\ UNCHANGED <<running, conn, codec>>

\* socket.read of task c returns Ok(n), n > 0: the task is resumed and
\* enters its while loop
TaskRead(c, n) ==
    /\ running = 0
    /\ conns[c].pc = "read"
    /\ n >= 1 /\ n <= Len(conns[c].wire) /\ n <= TEMP_BUF_SIZE
    /\ conns' = spawned_task(conns, c,
                     [conns[c] EXCEPT !.buffer = @ \o Take(conns[c].wire, n),
                                      !.wire = Drop(@, n),
                                      !.pc = "loop",
                                      !.reads = Append(@, n)])
    /\ running' = c
    /\ UNCHANGED <<conn, codec>>

\* socket.read of task c returns Ok(0): the task returns Ok(())
TaskPeerClosed(c) ==
    /\ running = 0
    /\ conns[c].pc = "read"
    /\ conns[c].wire = <<>>
    /\ conns' = spawned_task(conns, c, [conns[c] EXCEPT !.pc = "closed"])
    /\ UNCHANGED <<running, conn, codec>>

\* socket.read of task c returns Err(e): the task returns the error
TaskReadError(c) ==
    /\ running = 0
    /\ conns[c].pc = "read"
    /\ conns' = spawned_task(conns, c, [conns[c] EXCEPT !.pc = "error"])
    /\ UNCHANGED <<running, conn, codec>>

\* what a call of handle_packet with result r leaves of task c.  The task
\* keeps the thread unless it has ended or it awaited a socket write, which
\* may suspend it.
task_handled(c, r) ==
    /\ conns' = spawned_task(conns, c,
                     [conns[c] EXCEPT !.state = r.state,
                                      !.buffer = r.buffer,
                                      !.out = @ \o r.frames,
                                      !.pc = after_packet(r.ret)])
    /\ running' \in (IF r.ret # "continue" THEN {0}
                     ELSE IF r.frames # <<>> THEN {0, c} ELSE {c})

\* one iteration of the while loop of task c
TaskHandlePacket(c) ==
    /\ running = c
    /\ conns[c].pc = "loop"
    /\ conns[c].buffer # <<>>
    /\ \E ord \in KeyOrders :
          task_handled(c, handle_packet(conns[c].state, conns[c].buffer, ord))
    /\ UNCHANGED <<conn, codec>>

\* the socket write task c was suspended at completes: the task goes on
TaskResume(c) ==
    /\ running = 0
    /\ conns[c].pc = "loop"
    /\ running' = c
    /\ UNCHANGED <<conns, conn, codec>>

\* the while loop of task c ends on an empty buffer: the task awaits
\* socket.read
TaskLoopExit(c) ==
    /\ running = c
    /\ conns[c].pc = "loop"
    /\ conns[c].buffer = <<>>
    /\ conns' = spawned_task(conns, c, [conns[c] EXCEPT !.pc = "read"])
    /\ running' = 0
    /\ UNCHANGED <<conn, codec>>

ServerInit == InitWith({}) /\ CodecIdle /\ ServerIdle

ServerNext ==
    \/ \E s \in DOMAIN Sessions : Accept(s)
    \/ \E c \in 1..MaxConns :
          \/ \E n \in 1..Min(Len(conns[c].wire), TEMP_BUF_SIZE) : TaskRead(c, n)
          \/ TaskPeerClosed(c)
          \/ TaskReadError(c)
          \/ TaskHandlePacket(c)
          \/ TaskResume(c)
          \/ TaskLoopExit(c)

ServerSpec == ServerInit /\ [][ServerNext]_vars

(***************************************************************************)
(* Vocabulary of the properties.  These definitions describe frames and    *)
(* expected output from the wire format, not from the handlers above.      *)
(***************************************************************************)
\* the (packet_id, payload) of a framed item, as `last` records a dispatch
Pair(i) == <<[id |-> Items[i].id, payload |-> Items[i].payload]>>

\* encoded_size(length) + length of a framed item
TotalSize(i) ==
    LET length == Len(write_varint(Items[i].id)) + Len(Items[i].payload)
    IN get_varint_size(length) + length

\* the task is in its loop and the frame of item i has fully arrived at the
\* front of the receive buffer
HeadArrived(i) ==
    /\ pc = "loop"
    /\ pending # <<>>
    /\ Head(pending) = i
    /\ Items[i].framed
    /\ IsPrefix(Items[i].bytes, buffer)

\* the length VarInt is incomplete: fewer than 5 bytes, all with the
\* continuation bit
LengthIncomplete(buf) ==
    /\ Len(buf) < 5
    /\ \A k \in 1..Len(buf) : buf[k] >= CONTINUE_BIT

\* the buffer is non-empty and does not hold a complete frame
IncompleteFrame(buf) ==
    /\ buf # <<>>
    /\ \/ LengthIncomplete(buf)
       \/ LET len == read_varint(buf)
          IN /\ len.ok
             /\ len.val >= 0
             /\ Len(buf) - get_varint_size(len.val) < len.val

\* the bytes of the items in flight, in the order they were sent
RECURSIVE ItemsBytes(_)
ItemsBytes(ids) ==
    IF ids = <<>> THEN <<>>
    ELSE Items[Head(ids)].bytes \o ItemsBytes(Tail(ids))

AllFramed(ids) == \A k \in 1..Len(ids) : Items[ids[k]].framed

\* an id the dispatch table has no row for in the phase
Unrecognised(st, id) ==
    \/ st = "Handshake" /\ id # 0
    \/ st = "Status" /\ id \notin {0, 1}
    \/ st = "Login" /\ id \notin {0, 3}
    \/ st = "Configuration" /\ id \notin {0, 2, 3, 7}

LegalTransitions ==
    {<<"Handshake", "Status">>, <<"Handshake", "Login">>,
     <<"Login", "Configuration">>, <<"Configuration", "Play">>}

\* pong: length 9, id 0x01, the 8 bytes of the ping
ExpectedPong == <<9, 1>> \o PingPayload

\* status response: length 191 (as VarInt), id 0x00, the JSON as a string
ExpectedStatusResponse == <<191, 1, 0, 188, 1>> \o StatusJson

\* login success for username "A": id 0x02, UUID, name, 0 properties, 0
ExpectedLoginSuccess ==
    <<21, 2, 0, 0, 0, 0, 0, 0, 0, 0, 0, 0, 0, 0, 0, 0, 0, 1, 1, 65, 0, 0>>

\* known packs: id 0x0E, one pack ("minecraft", "core", "1.21.1")
ExpectedKnownPacks ==
    <<24, 14, 1, 9>> \o StrMinecraft \o <<4>> \o StrCore \o <<6>> \o StrVersion

\* server-initiated finish configuration: length 1, id 0x03
ExpectedFinishConfiguration == <<1, 3>>

(***************************************************************************)
(* C1.  Framer under fragmentation: a valid frame delivered as its first k *)
(* bytes in one socket read and the rest in a later read is dispatched     *)
(* with the same (packet_id, payload), reaches the same phase and writes   *)
(* the same frames as when one read delivers it whole.  Stated for the     *)
(* first frame of a connection, a handshake i: once handle_packet has run  *)
(* on bytes of the frame, the connection either has the outcome of the     *)
(* whole delivery, or holds the fragment unchanged and waits on the socket *)
(* read that brings the rest (or that read has failed).                    *)
(***************************************************************************)
\* the outcome of handle_packet on the whole frame of item i in Handshake
WholeDelivery(i) == handle_packet("Handshake", Items[i].bytes, [k \in 1..MaxEntries |-> k])

SameAsWhole(i) ==
    /\ pending = <<>>
    /\ last = WholeDelivery(i).disp
    /\ last = Pair(i)
    /\ state = WholeDelivery(i).state
    /\ out = WholeDelivery(i).frames

AwaitsRest(i) ==
    /\ pending = <<i>>
    /\ pc \in {"read", "error"}
    /\ buffer \o wire = Items[i].bytes
    /\ state = "Handshake"
    /\ out = <<>>

C1_FragmentedSameAsWhole ==
    \A i \in {ItemHS1, ItemHS2} :
        (/\ nsent = 1
         /\ pending = <<i>> \/ last = Pair(i)
         /\ iter >= 1)
          => (SameAsWhole(i) \/ AwaitsRest(i))

(***************************************************************************)
(* C2.  When the receive buffer is non-empty and holds no complete frame,  *)
(* the frame loop stops after the handle_packet call and the task goes     *)
(* back to waiting on the next socket read.                                *)
(***************************************************************************)
C2_LoopStopsOnIncomplete ==
    [][(pc = "loop" /\ IncompleteFrame(buffer)) => pc' = "read"]_vars

(***************************************************************************)
(* C3.  handle_packet on a buffer that holds an incomplete frame changes   *)
(* nothing: the buffer keeps every byte, the phase stays, no frame is      *)
(* written.                                                                *)
(***************************************************************************)
C3_IncompleteNoChange ==
    [][(pc = "loop" /\ IncompleteFrame(buffer))
         => (buffer' = buffer /\ state' = state /\ out' = out)]_vars

\* handle_packet has run on an incomplete frame that follows a handshake
C3_Witness ==
    /\ pc = "loop"
    /\ iter >= 1
    /\ state = "Status"
    /\ IncompleteFrame(buffer)

(***************************************************************************)
(* C4.  The phase starts at Handshake and changes only by                  *)
(* Handshake->Status, Handshake->Login, Login->Configuration and           *)
(* Configuration->Play; Status and Play are never left.                    *)
(***************************************************************************)
C4_LegalTransitions ==
    /\ state = "Handshake"
    /\ [][state' # state => <<state, state'>> \in LegalTransitions]_vars

\* a connection that went through Handshake, Login and Configuration
C4_Witness == state = "Play" /\ nsent >= 3

(***************************************************************************)
(* C5.  A handshake frame with next-state 1 leaves the connection in       *)
(* Status, with next-state 2 in Login; any other next-state ends the       *)
(* connection with a protocol error, the phase still Handshake and no      *)
(* frame written.                                                          *)
(***************************************************************************)
C5_HandshakeNextState ==
    [][/\ (state = "Handshake" /\ HeadArrived(ItemHS1))
            => (state' = "Status" /\ pc' = "loop" /\ out' = out)
       /\ (state = "Handshake" /\ HeadArrived(ItemHS2))
            => (state' = "Login" /\ pc' = "loop" /\ out' = out)
       /\ \A i \in {ItemHS0, ItemHS3} :
            (state = "Handshake" /\ HeadArrived(i))
              => (pc' = "error" /\ state' = "Handshake" /\ out' = out)]_vars

\* a handshake with next-state 3 was dispatched and rejected
C5_Witness ==
    /\ pc = "error"
    /\ state = "Handshake"
    /\ last = Pair(ItemHS3)
    /\ out = <<>>

(***************************************************************************)
(* C6.  Original statement: when one socket read delivers several complete *)
(* frames back to back, every one of them is dispatched, in arrival order, *)
(* exactly once.  As a final result: once the task is done with what it    *)
(* read and everything the client sent (complete frames only) was read,    *)
(* no frame is left undispatched.                                          *)
(***************************************************************************)
C6_EveryFrameDispatched ==
    (pc \in {"read", "closed", "error"} /\ wire = <<>> /\ AllFramed(pending))
        => pending = <<>>

(***************************************************************************)
(* C6, amended.  Frames delivered back to back are dispatched one at a     *)
(* time in arrival order, each at most once, up to and including the first *)
(* frame that closes the connection or fails; after each dispatch that     *)
(* leaves the connection open exactly encoded_size(length)+length bytes    *)
(* are dropped from the front of the buffer and the rest keeps its order.  *)
(* Aligned: the undispatched bytes are exactly the frames in flight, in    *)
(* order (no frame is skipped or seen twice).                              *)
(***************************************************************************)
Aligned == pc \in {"read", "loop"} => buffer \o wire = ItemsBytes(pending)

C6_DispatchInOrder ==
    /\ []Aligned
    /\ [][\A i \in ItemIds :
            HeadArrived(i)
              => /\ last' = Pair(i)
                 /\ pending' = Tail(pending)
                 /\ pc' = "loop"
                      => buffer' = SubSeq(buffer, TotalSize(i) + 1, Len(buffer))
                 /\ pc' # "loop" => pc' \in {"closed", "error"}]_vars

\* one read delivered at least two frames, both were dispatched and consumed
C6_Witness ==
    /\ pc = "read"
    /\ iter >= 2
    /\ buffer = <<>>
    /\ pending = <<>>
    /\ nsent >= 2

(***************************************************************************)
(* C7.  In Status a ping (id 0x01, 8 payload bytes) makes the server write *)
(* one pong frame (length 9, id 0x01, the same 8 bytes) and close; frames  *)
(* behind the ping are never dispatched.  After handshake(next-state=1),   *)
(* status request, ping the frames written are exactly                     *)
(* [status response, pong].                                                *)
(***************************************************************************)
C7_StatusPing ==
    /\ [][(state = "Status" /\ HeadArrived(ItemPing))
            => (out' = Append(out, ExpectedPong) /\ pc' = "closed"
                /\ state' = "Status")]_vars
    /\ [][pc = "closed" => (last' = last /\ pending' = pending /\ out' = out
                            /\ pc' = "closed")]_vars
    /\ []((scen = 3 /\ pc = "closed")
            => out = <<ExpectedStatusResponse, ExpectedPong>>)

\* the status scenario has run to its end with a frame left behind the ping
C7_Witness ==
    /\ scen = Len(StatusScenario)
    /\ nsent = 4
    /\ pc = "closed"
    /\ last = Pair(ItemPing)
    /\ Len(pending) = 1
    /\ out = <<ExpectedStatusResponse, ExpectedPong>>

(***************************************************************************)
(* C8.  In Login a login start makes the server write one login-success    *)
(* frame and leaves the phase Login; the phase becomes Configuration only  *)
(* on a login-acknowledged frame (0x03), and then exactly one known-packs  *)
(* frame is written.                                                       *)
(***************************************************************************)
C8_LoginFlow ==
    [][/\ (state = "Login" /\ HeadArrived(ItemLoginStart))
            => (out' = Append(out, ExpectedLoginSuccess) /\ state' = "Login"
                /\ pc' = "loop")
       /\ (state = "Login" /\ HeadArrived(ItemAck))
            => (out' = Append(out, ExpectedKnownPacks)
                /\ state' = "Configuration" /\ pc' = "loop")
       /\ (state = "Login" /\ state' # "Login")
            => (/\ state' = "Configuration"
                /\ last' # last \/ pending' # pending
                /\ last'[1].id = LOGIN_ACKNOWLEDGED_PACKET_ID
                /\ out' = Append(out, ExpectedKnownPacks))]_vars

\* login start, then login acknowledged
C8_Witness ==
    /\ state = "Configuration"
    /\ last = Pair(ItemAck)
    /\ out = <<ExpectedLoginSuccess, ExpectedKnownPacks>>

(***************************************************************************)
(* C9.  On a serverbound known-packs frame (0x07) in Configuration the     *)
(* server writes one registry-data frame per registry type and the         *)
(* aggregated tags frame, then a finish-configuration frame (id 0x03) as   *)
(* the last frame; the phase stays Configuration.                          *)
(***************************************************************************)
\* the frames a step has appended to out
Written == SubSeq(out', Len(out) + 1, Len(out'))

C9_KnownPacksResponse ==
    [][(state = "Configuration" /\ HeadArrived(ItemKnownPacks))
         => /\ state' = "Configuration"
            /\ IsPrefix(out, out')
            /\ Len(Written) = Len(RegistryOrder) + 2
            /\ \E ord \in KeyOrders :
                 \A k \in 1..Len(RegistryOrder) :
                    \E j \in 1..Len(Written) :
                       Written[j] = write_registry_packet(
                                       RegistryOrder[k].name,
                                       keys(RegistryOrder[k].field, ord))
            /\ \E j \in 1..Len(Written) : Written[j] = write_update_tags
            /\ Written[Len(Written)] = ExpectedFinishConfiguration]_vars

(***************************************************************************)
(* C10.  A frame whose packet id the phase does not recognise (Handshake,  *)
(* Status, Login, Configuration) is ignored: the connection stays open,    *)
(* the phase stays, nothing is written, and exactly the frame's bytes are  *)
(* consumed, so the frames behind it are dispatched next.                  *)
(***************************************************************************)
C10_UnknownIgnored ==
    [][\A i \in ItemIds :
         (HeadArrived(i) /\ Unrecognised(state, Items[i].id))
           => /\ pc' = "loop"
              /\ state' = state
              /\ out' = out
              /\ buffer' = SubSeq(buffer, Len(Items[i].bytes) + 1, Len(buffer))
              /\ pending' = Tail(pending)
              /\ IsPrefix(buffer', ItemsBytes(pending'))]_vars

\* an unknown id was ignored in Configuration and the frame sent behind it
\* is now complete at the front of the buffer
C10_Witness ==
    /\ state = "Configuration"
    /\ pc = "loop"
    /\ last = Pair(ItemUnknown)
    /\ pending # <<>>
    /\ buffer = Items[Head(pending)].bytes

(***************************************************************************)
(* C11.  A finish-configuration acknowledgment (0x03 in Configuration)     *)
(* moves the connection to Play; in Play every received frame, whatever    *)
(* its packet id, is consumed with no phase change, no outbound frame and  *)
(* no close of the connection.                                             *)
(***************************************************************************)
C11_PlayIgnoresAll ==
    [][/\ (state = "Configuration" /\ HeadArrived(ItemAck))
            => (state' = "Play" /\ pc' = "loop")
       /\ \A i \in ItemIds :
            (state = "Play" /\ HeadArrived(i))
              => /\ state' = "Play"
                 /\ out' = out
                 /\ pc' = "loop"
                 /\ pending' = Tail(pending)
                 /\ buffer' = SubSeq(buffer, TotalSize(i) + 1, Len(buffer))]_vars

\* handshake(2), 0x03, 0x03, then a known-packs frame received in Play: only
\* the known-packs frame of the login acknowledgment was ever written
C11_Witness ==
    /\ state = "Play"
    /\ pc = "loop"
    /\ last = Pair(ItemKnownPacks)
    /\ out = <<ExpectedKnownPacks>>

(***************************************************************************)
(* C12.  An oversized VarInt at the frame-length position (five bytes with *)
(* the continuation bit set, so that the encoding runs past 5 bytes) is a  *)
(* fatal protocol error that ends the connection; only an incomplete       *)
(* VarInt there becomes "wait for more data".                              *)
(***************************************************************************)
OversizedLength(buf) ==
    /\ Len(buf) >= 5
    /\ \A k \in 1..5 : buf[k] >= CONTINUE_BIT

C12_OversizedLengthFatal ==
    [][(pc = "loop" /\ OversizedLength(buffer)) => pc' = "error"]_vars

(***************************************************************************)
(* C13.  When the payload of a fully arrived frame is shorter than its     *)
(* fields require (a handshake or known-packs frame whose string length    *)
(* exceeds the remaining payload, a ping with fewer than 8 payload bytes), *)
(* handle_packet returns a fatal error: the connection task ends, the      *)
(* phase is unchanged, nothing is written for the frame and no later frame *)
(* in the buffer is dispatched.                                            *)
(***************************************************************************)
\* the phase reads the fields of item i and the payload ends before they do
PayloadTooShort(st, i) ==
    \/ st = "Handshake" /\ i = ItemShortHandshake
    \/ st = "Status" /\ i = ItemShortPing
    \/ st = "Configuration" /\ i = ItemShortKnownPacks

C13_ShortPayloadFatal ==
    /\ [][\A i \in ItemIds :
            (HeadArrived(i) /\ PayloadTooShort(state, i))
              => /\ pc' = "error"
                 /\ state' = state
                 /\ out' = out
                 /\ buffer' = buffer]_vars
    /\ [][pc = "error"
            => (pc' = "error" /\ last' = last /\ pending' = pending
                /\ out' = out /\ state' = state)]_vars

\* a short known-packs frame ended the task with a frame behind it
C13_Witness ==
    /\ pc = "error"
    /\ state = "Configuration"
    /\ last = Pair(ItemShortKnownPacks)
    /\ pending # <<>>
    /\ out = <<ExpectedKnownPacks>>

(***************************************************************************)
(* C14.  VarInt round trip: for every value v in 0..=i32::MAX, read_varint *)
(* on the bytes written by write_varint(v) yields v and consumes exactly   *)
(* the bytes that were written (what follows them is left in the cursor).  *)
(***************************************************************************)
C14_VarIntRoundTrip ==
    op = "round_trip"
      => /\ res.read.ok
         /\ res.read.val = arg.v
         /\ res.read.rest = res.trailer

\* i32::MAX was written as 5 bytes and read back in front of other bytes
C14_Witness ==
    /\ op = "round_trip"
    /\ arg.v = I32_MAX
    /\ Len(res.written) = 5
    /\ res.trailer = <<1, 128>>

(***************************************************************************)
(* C15.  VarInt decode errors are distinguishable outcomes: six bytes with *)
(* every continuation bit set yield the Oversized error, a valid encoding  *)
(* without its final byte yields the Incomplete error, and the two are     *)
(* different errors a caller can tell apart (here: by the error variant,   *)
(* which is what a caller matches on).                                     *)
(***************************************************************************)
SixContinuationBytes == <<255, 255, 255, 255, 255, 255>>

FieldReaders ==
    {"string", "byte", "unsigned_byte", "boolean", "unsigned_short", "long",
     "plugin_message"}

\* the bytes start with a complete, non-negative length that the rest of the
\* bytes does not cover
DeclaredTooLong(bytes) ==
    /\ read_varint(bytes).ok
    /\ read_varint(bytes).val > Len(read_varint(bytes).rest)

C16_FailedReadConsumesNothing ==
    /\ (op \in FieldReaders /\ ~res.ok) => res.rest = arg.v
    /\ (op = "string" /\ DeclaredTooLong(arg.v))
         => (~res.ok /\ res.err.kind = "BufferUnderrun" /\ res.rest = arg.v)

(***************************************************************************)
(* C17.  read_varint does not mutate its input until a full, valid value   *)
(* has been decoded: when it fails with Incomplete the input cursor is at  *)
(* the same offset as before the call, so decoding can be restarted from   *)
(* that offset once more bytes have arrived.                               *)
(***************************************************************************)
C17_IncompleteVarIntRestartable ==
    (op = "varint" /\ ~res.ok /\ res.err = ErrVarIntUnderflow)
      => res.rest = arg.v

(***************************************************************************)
(* C18.  write_registry_packet(name, entries) produces exactly: a VarInt   *)
(* length prefix equal to the number of bytes that follow, packet id 0x07, *)
(* the identifier "minecraft:<name>" as a length-prefixed string, the      *)
(* entry count as a VarInt, then for each entry in the given order its     *)
(* identifier as a length-prefixed string (namespace "minecraft" when the  *)
(* entry has no ':' of its own) followed by one 0 byte.  The layout is     *)
(* written out byte by byte; every length of the inputs drawn is below     *)
(* 128, so each VarInt of the layout is the one byte of its value.         *)
(***************************************************************************)
StrMinecraftColon == <<109, 105, 110, 101, 99, 114, 97, 102, 116, 58>>

HasColon(name) == \E k \in 1..Len(name) : name[k] = 58

EntryIdentifier(entry) ==
    IF HasColon(entry) THEN entry ELSE StrMinecraftColon \o entry

RECURSIVE EntriesLayout(_)
EntriesLayout(entries) ==
    IF entries = <<>> THEN <<>>
    ELSE <<Len(EntryIdentifier(Head(entries)))>>
           \o EntryIdentifier(Head(entries)) \o <<0>>
           \o EntriesLayout(Tail(entries))

RegistryPacketLayout(name, entries) ==
    LET body == <<7, Len(StrMinecraftColon \o name)>> \o StrMinecraftColon
                  \o name \o <<Len(entries)>> \o EntriesLayout(entries)
    IN <<Len(body)>> \o body

\* the bytes tests::test_registry_packet expects
TestRegistryPacket ==
    <<116, 7, 24, 109, 105, 110, 101, 99, 114, 97, 102, 116, 58, 100, 105,
      109, 101, 110, 115, 105, 111, 110, 95, 116, 121, 112, 101, 4, 19, 109,
      105, 110, 101, 99, 114, 97, 102, 116, 58, 111, 118, 101, 114, 119,
      111, 114, 108, 100, 0, 25, 109, 105, 110, 101, 99, 114, 97, 102, 116,
      58, 111, 118, 101, 114, 119, 111, 114, 108, 100, 95, 99, 97, 118, 101,
      115, 0, 20, 109, 105, 110, 101, 99, 114, 97, 102, 116, 58, 116, 104,
      101, 95, 110, 101, 116, 104, 101, 114, 0, 17, 109, 105, 110, 101, 99,
      114, 97, 102, 116, 58, 116, 104, 101, 95, 101, 110, 100, 0>>

C18_RegistryPacketLayout ==
    op = "write_registry_packet"
      => /\ Len(res) - 1 < 128
         /\ res = RegistryPacketLayout(arg.v.name, arg.v.entries)
         /\ arg.v.entries = TestEntries => res = TestRegistryPacket

\* registry "a" with the entries "x:a" and "a": 32 bytes follow the length
C18_Witness ==
    /\ op = "write_registry_packet"
    /\ arg.v = [name |-> <<97>>, entries |-> <<<<120, 58, 97>>, <<97>>>>]
    /\ res = <<32, 7, 11>> \o StrMinecraftColon \o <<97, 2, 3, 120, 58, 97, 0, 11>>
               \o StrMinecraftColon \o <<97, 0>>

(***************************************************************************)
(* C19.  Registry encoding is deterministic and definition-ordered: the    *)
(* entries of each registry frame appear in the catalog's definition       *)
(* order, so every execution of the known-packs response over the same     *)
(* catalog writes the same registry frames, byte for byte.                 *)
(***************************************************************************)
\* the iteration order that yields the keys of a map as the catalog lists them
DefinitionOrder == [k \in 1..MaxEntries |-> k]

C19_RegistryFramesDefinitionOrdered ==
    [][(state = "Configuration" /\ HeadArrived(ItemKnownPacks))
         => Take(Written, Len(RegistryOrder))
              = write_registry_data(DefinitionOrder)]_vars

(***************************************************************************)
(* C20.  In the tags frame the leading registry-type count equals the      *)
(* number of registry sections actually written: a registry type is        *)
(* written and counted exactly when it has at least one tag group, and     *)
(* each written section's group count and each group's entry-id count      *)
(* equal the number of groups and entry ids that follow.  The frame is     *)
(* read back count by count: the sections read must be the non-empty types *)
(* of the catalog, in order, and must end where the frame ends.            *)
(***************************************************************************)
\* n VarInts
RECURSIVE ParseIds(_, _)
ParseIds(buf, n) ==
    IF n = 0 THEN [ok |-> TRUE, ids |-> <<>>, rest |-> buf]
    ELSE LET id == read_varint(buf)
         IN IF ~id.ok THEN [ok |-> FALSE, ids |-> <<>>, rest |-> buf]
            ELSE LET t == ParseIds(id.rest, n - 1)
                 IN [ok |-> t.ok, ids |-> <<id.val>> \o t.ids, rest |-> t.rest]

\* n groups: identifier, entry count, that many entry ids
RECURSIVE ParseGroups(_, _)
ParseGroups(buf, n) ==
    IF n = 0 THEN [ok |-> TRUE, groups |-> <<>>, rest |-> buf]
    ELSE LET name == read_string(buf)
             count == read_varint(name.rest)
             ids == ParseIds(count.rest, count.val)
             t == ParseGroups(ids.rest, n - 1)
         IN IF ~(name.ok /\ count.ok /\ count.val >= 0 /\ ids.ok)
            THEN [ok |-> FALSE, groups |-> <<>>, rest |-> buf]
            ELSE [ok |-> t.ok,
                  groups |-> <<[name |-> name.val, entries |-> ids.ids]>>
                               \o t.groups,
                  rest |-> t.rest]

\* n sections: registry identifier, group count, that many groups
RECURSIVE ParseSections(_, _)
ParseSections(buf, n) ==
    IF n = 0 THEN [ok |-> TRUE, sections |-> <<>>, rest |-> buf]
    ELSE LET name == read_string(buf)
             count == read_varint(name.rest)
             groups == ParseGroups(count.rest, count.val)
             t == ParseSections(groups.rest, n - 1)
         IN IF ~(name.ok /\ count.ok /\ count.val >= 0 /\ groups.ok)
            THEN [ok |-> FALSE, sections |-> <<>>, rest |-> buf]
            ELSE [ok |-> t.ok,
                  sections |-> <<[name |-> name.val, groups |-> groups.groups]>>
                                 \o t.sections,
                  rest |-> t.rest]

\* the sections a catalog calls for: its types that have a tag group, in the
\* order of the frame, each with its groups
RECURSIVE GroupsOf(_)
GroupsOf(tags) ==
    IF tags = <<>> THEN <<>>
    ELSE <<[name |-> Head(tags).tag_name.namespace \o <<58>>
                       \o Head(tags).tag_name.name,
            entries |-> Head(tags).entries]>> \o GroupsOf(Tail(tags))

RECURSIVE SectionsOf(_, _)
SectionsOf(tag_data, i) ==
    IF i > Len(TagOrder) THEN <<>>
    ELSE (IF tag_data[TagOrder[i].field] = <<>> THEN <<>>
          ELSE <<[name |-> StrMinecraftColon \o TagOrder[i].name,
                  groups |-> GroupsOf(tag_data[TagOrder[i].field])]>>)
           \o SectionsOf(tag_data, i + 1)

C20_TagCountsMatch ==
    op = "write_update_tags"
      => LET length == read_varint(res)
             id == read_varint(length.rest)
             count == read_varint(id.rest)
             read == ParseSections(count.rest, count.val)
         IN /\ length.ok /\ length.val = Len(length.rest)
            /\ id.ok /\ id.val = 13
            /\ count.ok /\ count.val = Len(SectionsOf(arg.v, 1))
            /\ read.ok
            /\ read.rest = <<>>
            /\ read.sections = SectionsOf(arg.v, 1)

\* a catalog with empty and non-empty types, a group without entries and
\* groups with entries: two sections are counted and written
C20_Witness ==
    /\ op = "write_update_tags"
    /\ arg.v = TagData
    /\ Len(SectionsOf(arg.v, 1)) = 2
    /\ SubSeq(res, 2, 3) = <<13, 2>>

(***************************************************************************)
(* C21: every frame the connection has written begins with a VarInt whose  *)
(* value is the number of bytes that follow it in the frame (packet id and *)
(* payload), the length VarInt itself not counted.                         *)
(***************************************************************************)
\* frame = VarInt(n) ++ body with Len(body) = n
LengthPrefixed(frame) ==
    LET n == read_varint(frame)
    IN n.ok /\ n.val = Len(n.rest)

C21_FramesLengthPrefixed ==
    \A i \in 1..Len(out) : LengthPrefixed(out[i])

\* the login exchange ran to its end: login success, known packs, one
\* registry frame per registry type and finish configuration were written
C21_Witness ==
    /\ Len(out) = Len(RegistryOrder) + 3
    /\ out[1] = send_login_success(<<65>>)
    /\ out[2] = send_known_packs
    /\ out[Len(out)] = send_finish_configuration
    /\ C21_FramesLengthPrefixed

(***************************************************************************)
(* C22: with several connections, when one connection has failed or was    *)
(* closed, every other connection's phase, receive buffer and outbound     *)
(* frames are what a connection that is alone on the server has after the  *)
(* same socket reads.                                                      *)
(***************************************************************************)
\* handle_connection of a connection that is alone: k after the while loop
\* has run on its buffer (left in "loop" where the loop does not end)
RECURSIVE AloneLoop(_), AloneAfter(_, _)
AloneLoop(k) ==
    IF k.buffer = <<>> THEN [k EXCEPT !.pc = "read"]
    ELSE AloneAfter(k, handle_packet(k.state, k.buffer,
                                     CHOOSE ord \in KeyOrders : TRUE))

AloneAfter(k, r) ==
    LET k2 == [k EXCEPT !.state = r.state, !.buffer = r.buffer,
                        !.out = @ \o r.frames, !.pc = after_packet(r.ret)]
    IN IF r.ret # "continue" \/ r.disp = <<>> THEN k2 ELSE AloneLoop(k2)

\* ... and after socket reads of the given sizes
RECURSIVE AloneReads(_, _)
AloneReads(k, reads) ==
    IF reads = <<>> \/ k.pc # "read" THEN k
    ELSE AloneReads(AloneLoop([k EXCEPT
                                 !.buffer = @ \o Take(k.wire, Head(reads)),
                                 !.wire = Drop(@, Head(reads)),
                                 !.pc = "loop",
                                 !.reads = Append(@, Head(reads))]),
                    Tail(reads))

Alone(k) == AloneReads(Connection_new(k.session), k.reads)

\* task c has ended with an error or a close
Ended(c) == conns[c].pc \in {"closed", "error"}

\* task d is not inside its while loop
Quiescent(d) == conns[d].pc \in {"read", "closed", "error"}

\* connection k is as the lone connection a is
SameAsAlone(k, a) ==
    /\ k.state = a.state
    /\ k.buffer = a.buffer
    /\ k.out = a.out
    /\ k.wire = a.wire
    /\ a.pc \in {"read", k.pc}

C22_ErrorsStayLocal ==
    \A d \in 1..MaxConns :
        (Quiescent(d) /\ \E c \in 1..MaxConns : c # d /\ Ended(c))
            => SameAsAlone(conns[d], Alone(conns[d]))

\* connection 1 failed on its first frame; connection 2 has run the status
\* exchange to its end after that
C22_Witness ==
    /\ conns[1].session = "fatal" /\ conns[1].pc = "error"
    /\ conns[1].reads = <<1>>
    /\ conns[2].session = "status" /\ conns[2].pc = "closed"
    /\ conns[2].state = "Status"
    /\ conns[2].out = <<ExpectedStatusResponse, ExpectedPong>>

(***************************************************************************)
(* C26: a connection whose receive buffer holds an incomplete frame does   *)
(* not keep another connection's complete frames from being dispatched:    *)
(* while one connection waits for the rest of a frame and another has a    *)
(* complete frame waiting in its socket, the server can still take a step. *)
(***************************************************************************)
\* task c has found the frame at the front of its buffer incomplete
WaitsForRest(c) ==
    /\ conns[c].pc \in {"read", "loop"}
    /\ IncompleteFrame(conns[c].buffer)

\* a complete frame is waiting in the socket of task d, which awaits a read
FrameWaiting(d) ==
    /\ conns[d].pc = "read"
    /\ conns[d].wire # <<>>
    /\ ~IncompleteFrame(conns[d].wire)

C26_IncompleteDoesNotBlock ==
    \A c, d \in 1..MaxConns :
        (c # d /\ WaitsForRest(c) /\ FrameWaiting(d))
            => ENABLED <<ServerNext>>_server

(***************************************************************************)
(* C23: for every i32 value, the loop of write_varint never has appended   *)
(* more bytes than get_varint_size of the value, and has appended exactly  *)
(* that many when it breaks.                                               *)
(***************************************************************************)
C23_SizeMatchesWritten ==
    op = "write_varint_loop"
        => /\ Len(res.buf) <= get_varint_size(arg.v)
           /\ res.done => Len(res.buf) = get_varint_size(arg.v)

(***************************************************************************)
(* C24: for every i32 value, negative values included, the loop of         *)
(* write_varint appends at most 5 bytes, breaks at the latest after the    *)
(* fifth, and sets the continuation bit on every byte but the final one.   *)
(***************************************************************************)
C24_WriteVarIntTerminates ==
    op = "write_varint_loop"
        => /\ Len(res.buf) >= 1 /\ Len(res.buf) <= 5
           /\ Len(res.buf) = 5 => res.done
           /\ \A k \in 1..(Len(res.buf) - 1) : res.buf[k] >= CONTINUE_BIT
           /\ res.done => res.buf[Len(res.buf)] < CONTINUE_BIT

(***************************************************************************)
(* C25: read_identifier splits the decoded string at its first ':' into    *)
(* namespace and path; it fails, with a protocol error, exactly when the   *)
(* string has no ':'.  A string with several ':' is accepted, everything   *)
(* behind the first ':' being the path.                                    *)
(***************************************************************************)
\* the string the bytes encode, and what follows it
Decoded(bytes) == read_string(bytes)

C25_IdentifierSplitOnce ==
    op = "read_identifier"
        => LET s == Decoded(arg.v).val
               c == FirstColon(s, 1)
           IN IF c = 0
              THEN ~res.ok /\ res.err.kind = "Protocol"
              ELSE /\ res.ok
                   /\ res.val.namespace = SubSeq(s, 1, c - 1)
                   /\ res.val.path = SubSeq(s, c + 1, Len(s))
                   /\ res.rest = Decoded(arg.v).rest

(***************************************************************************)
(* C27: when the frame at the front of the buffer has arrived in full and  *)
(* its packet id cannot be decoded (a frame of declared length 0, for      *)
(* one), handle_packet fails: the task ends with the VarInt error, it does *)
(* not wait for more data, and the phase, the buffer and the output are    *)
(* unchanged.                                                              *)
(***************************************************************************)
\* buf starts with a complete frame whose body does not start with a VarInt
UndecodableId(buf) ==
    LET len == read_varint(buf)
        size == get_varint_size(len.val)
    IN /\ len.ok
       /\ len.val >= 0
       /\ Len(buf) >= size + len.val
       /\ ~read_varint(SubSeq(buf, size + 1, size + len.val)).ok

C27_PacketIdErrorFatal ==
    [][(pc = "loop" /\ UndecodableId(buffer))
          => /\ pc' = "error"
             /\ state' = state
             /\ buffer' = buffer
             /\ out' = out]_vars

\* a frame of declared length 0 behind a handshake ended the task
C27_Witness ==
    /\ pc = "error"
    /\ state = "Status"
    /\ UndecodableId(buffer)
    /\ Head(buffer) = 0

(***************************************************************************)
(* C28: the fields of a dispatched frame are parsed from the frame's own   *)
(* bytes only.  When a complete frame is at the front of the buffer with   *)
(* more bytes behind it, the payload handed to the state machine is the    *)
(* frame's payload, the call ends as it ends on the frame alone (same      *)
(* phase, same frames written, same result), and where it succeeds exactly *)
(* the frame's bytes are dropped from the buffer.                          *)
(***************************************************************************)
\* the frame of item i is at the front of the buffer, followed by more bytes
FollowedByMore(i) == HeadArrived(i) /\ Len(buffer) > TotalSize(i)

\* the step ends as the call r of handle_packet ends
EndsAs(r) ==
    /\ state' = r.state
    /\ out' = out \o r.frames
    /\ pc' = after_packet(r.ret)

C28_ParsingStaysInFrame ==
    [][\A i \in ItemIds :
          FollowedByMore(i)
            => /\ last' = Pair(i)
               /\ \E ord \in KeyOrders :
                     EndsAs(handle_packet(state, Take(buffer, TotalSize(i)), ord))
               /\ pc' = "loop" => buffer' = Drop(buffer, TotalSize(i))]_vars

\* a plugin message was dispatched with another frame behind it, which is
\* still in the buffer
C28_Witness ==
    /\ state = "Configuration"
    /\ pc = "loop"
    /\ last = Pair(ItemPlugin)
    /\ buffer = Items[ItemUnknown].bytes

(***************************************************************************)
(* C29: whatever frame length the VarInt at the front of the buffer        *)
(* decodes to, negative lengths included, handle_packet ends in a wait, a  *)
(* dispatch or an error value: the task never ends in a panic (overflow of *)
(* length_size + length, slice bounds out of range).                       *)
(***************************************************************************)
C29_LengthArithmeticInRange == pc \in {"read", "loop", "closed", "error"}

(***************************************************************************)
(* C30: a connection is in Play only after the server has written its      *)
(* finish-configuration frame on that connection.                          *)
(***************************************************************************)
C30_PlayAfterFinishConfiguration ==
    state = "Play"
        => \E k \in 1..Len(out) : out[k] = ExpectedFinishConfiguration

====
